---- MODULE Spec2Model ----
(***************************************************************************)
(* Model of irescue/count.py: the per-cell UMI deduplication graph         *)
(* (connect_umis, pathfinder, compute_cell_counts), the equivalence-class  *)
(* reader (parse_maps) and the sharded run (split_barcodes, run_count,     *)
(* formatMM).                                                              *)
(*                                                                         *)
(* Nodes of a cell graph are the 0-based positions of the cell's           *)
(* equivalence classes, as in the source: node i is eqcl[i+1].             *)
(* networkx iterates nodes, successors and predecessors in insertion       *)
(* order; nodes are inserted by ascending index and edges in the order of  *)
(* itertools.permutations, so every iteration of the model is ascending.   *)
(***************************************************************************)
EXTENDS Integers, Sequences, FiniteSets, TLC

\* ------------------------------------------------------------------ bounds

\* largest number of equivalence classes of one cell
MaxNodes == 3

\* largest number of lines of the maps file
MaxRecords == 3

\* connect_umis' default mismatch threshold
threshold == 1

\* the feature ids of the feature index (index_features numbers from 1)
FeatureIds == 1..2
\* number_of_features = len(features_index)
number_of_features == Cardinality(FeatureIds)
\* the read counts of an equivalence class
ReadCounts == 1..2
\* the UMI sequences
Alphabet == {"A", "T"}
UMIs == [1..2 -> Alphabet]
FeatSets == (SUBSET FeatureIds) \ {{}}
EqClass == [umi : UMIs, ft : FeatSets, c : ReadCounts]

\* the features file: one feature name per line
FeaturesFile == <<"f1", "f2">>
\* the barcodes file: one barcode per line, distinct (written by "uniq")
BarcodesFile == <<"b1", "b2", "b3">>
\* the numbers of shards of the sharded run
ShardCounts == {2, 3}
\* the lines of the maps file: "CB UMI FEATs count"; "bx" is a barcode and
\* "fx" a feature name that the index files do not hold. Every barcode comes
\* with either feature alone, so that a cell can count f2 before f1; the
\* first barcode also comes with both features and with the unknown one
MapLine == [cb : {"b1", "b2", "b3", "bx"},
            umi : {<<"A", "A">>},
            feat : {{"f1"}, {"f2"}},
            count : {1}]
           \cup [cb : {"b1"},
                 umi : {<<"A", "A">>},
                 feat : {{"f1", "f2"}, {"fx"}},
                 count : {1}]

\* ----------------------------------------------------------------- helpers

Range(s) == {s[i] : i \in 1..Len(s)}

MinOf(S) == CHOOSE m \in S : \A x \in S : m <= x

RECURSIVE SetToSeq(_)
\* the elements of a set of integers in ascending order (iteration order)
SetToSeq(S) == IF S = {} THEN <<>>
               ELSE LET m == MinOf(S) IN <<m>> \o SetToSeq(S \ {m})

\* ------------------------------------------------------------ connect_umis

\* sum(1 for i, j in zip(x[0], y[0]) if i != j): zip stops at the shorter UMI
Mismatches(a, b) ==
    LET n == IF Len(a) < Len(b) THEN Len(a) ELSE Len(b)
    IN Cardinality({i \in 1..n : a[i] # b[i]})

\* connect_umis without the factor 2 of the count dominance
connect_umis_weak(x, y) ==
    /\ x.c >= y.c - 1
    /\ x.ft \cap y.ft # {}
    /\ Mismatches(x.umi, y.umi) <= threshold

\* connect_umis with the dominance 2*count(y) in place of 2*count(y) - 1
connect_umis_strict(x, y) ==
    /\ x.c >= 2 * y.c
    /\ x.ft \cap y.ft # {}
    /\ Mismatches(x.umi, y.umi) <= threshold

connect_umis(x, y) ==
    /\ x.c >= (2 * y.c) - 1
    /\ x.ft \cap y.ft # {}
    /\ Mismatches(x.umi, y.umi) <= threshold

\* ------------------------------------------------------------------- graph

Nodes(ec) == 0..(Len(ec) - 1)

\* graph.add_edge(x[0], y[0]) for every permutation (x, y) that connects
GraphEdges(ec) ==
    {e \in Nodes(ec) \X Nodes(ec) :
        e[1] # e[2] /\ connect_umis(ec[e[1] + 1], ec[e[2] + 1])}

NodeFt(ec) == [i \in Nodes(ec) |-> ec[i + 1].ft]

RECURSIVE WeakReach(_, _, _)
\* nodes connected to the set seen in graph.to_undirected()
WeakReach(E, all, seen) ==
    LET more == {v \in all \ seen :
                    \E u \in seen : <<u, v>> \in E \/ <<v, u>> \in E}
    IN IF more = {} THEN seen ELSE WeakReach(E, all, seen \cup more)

RECURSIVE connected_components(_, _)
\* nx.connected_components: one component per not yet seen node, in node order
connected_components(E, rest) ==
    IF rest = {} THEN <<>>
    ELSE LET c == WeakReach(E, rest, {MinOf(rest)})
         IN <<c>> \o connected_components(E, rest \ c)

\* successors taken as every other live node, edge or not
Successors_any(E, live, node) == SetToSeq(live \ {node})

Successors(E, live, node) == SetToSeq({v \in live : <<node, v>> \in E})

Predecessors(E, live, node) == {u \in live : <<u, node>> \in E}

\* -------------------------------------------------------------- pathfinder

RECURSIVE pathfinder(_, _, _, _, _, _)
RECURSIVE pathfinder_loop(_, _, _, _, _, _, _)

\* the for loop of pathfinder over graph.successors(node), from position i
pathfinder_loop(E, ft, live, succs, i, path, features) ==
    IF i > Len(succs) THEN path
    ELSE LET next_node == succs[i]
         IN IF features \cap ft[next_node] # {} /\ next_node \notin Range(path)
            THEN pathfinder_loop(E, ft, live, succs, i + 1,
                     pathfinder(E, ft, live, next_node, path, features),
                     features)
            ELSE pathfinder_loop(E, ft, live, succs, i + 1, path, features)

\* pathfinder replacing the anchor by the current node's own feature set
pathfinder_reanchor(E, ft, live, node, path, features) ==
    pathfinder_loop(E, ft, live, Successors(E, live, node), 1,
                    Append(path, node), ft[node])

\* features = {} stands for None (both are falsy in "if not features")
pathfinder(E, ft, live, node, path, features) ==
    LET feats == IF features = {} THEN ft[node] ELSE features
    IN pathfinder_loop(E, ft, live, Successors(E, live, node), 1,
                       Append(path, node), feats)

\* ----------------------------------------------------- compute_cell_counts

RECURSIVE config_loop_keep(_, _, _, _, _, _)
\* config_loop without subg_copy.remove_node(x): used nodes stay in the graph
config_loop_keep(E, ft, live, nodes, i, acc) ==
    IF i > Len(nodes) THEN acc
    ELSE IF \E k \in 1..Len(acc) : nodes[i] \in Range(acc[k])
         THEN config_loop_keep(E, ft, live, nodes, i + 1, acc)
         ELSE LET path == pathfinder(E, ft, live, nodes[i], <<>>, {})
              IN config_loop_keep(E, ft, live, nodes, i + 1, Append(acc, path))

RECURSIVE config_loop(_, _, _, _, _, _)
\* "for node in nodes": a node not yet in blacklist starts a path; the path's
\* nodes are appended to blacklist and removed from subg_copy (live)
config_loop(E, ft, live, nodes, i, acc) ==
    IF i > Len(nodes) THEN acc
    ELSE IF nodes[i] \notin live
         THEN config_loop(E, ft, live, nodes, i + 1, acc)
         ELSE LET path == pathfinder(E, ft, live, nodes[i], <<>>, {})
              IN config_loop(E, ft, live \ Range(path), nodes, i + 1,
                             Append(acc, path))

\* paths[parent]: nodes = [parent] + [x for x in subg_copy if x != parent]
path_configuration(E, ft, subg, parent) ==
    config_loop(E, ft, subg, <<parent>> \o SetToSeq(subg \ {parent}), 1, <<>>)

\* parents = [x for x in subg if not list(subg.predecessors(x))]
find_parents(E, subg) ==
    SetToSeq({x \in subg : Predecessors(E, subg, x) = {}})

\* select_config taking the first parent's configuration whatever its size
select_config_first(paths) == paths[1]

\* the first configuration, in parent order, with the minimum number of paths
select_config(paths) ==
    LET minlen == MinOf({Len(paths[k]) : k \in 1..Len(paths)})
        IsMin(v) == Len(v) = minlen
    IN SelectSeq(paths, IsMin)[1]

\* path_features taking the last node of each path instead of the first
path_features_last(ft, subg, noparent, path_config) ==
    IF noparent
    THEN [k \in 1..Len(path_config) |-> UNION {ft[x] : x \in subg}]
    ELSE [k \in 1..Len(path_config) |->
             ft[path_config[k][Len(path_config[k])]]]

\* one feature set per path of the selected configuration
path_features(ft, subg, noparent, path_config) ==
    IF noparent
    THEN [k \in 1..Len(path_config) |-> UNION {ft[x] : x \in subg}]
    ELSE [k \in 1..Len(path_config) |-> ft[path_config[k][1]]]

\* the body of "for subg in subgraphs" up to the selection of the features
solve_subgraph(E, ft, subg) ==
    LET found    == find_parents(E, subg)
        noparent == found = <<>>
        parents  == IF noparent THEN SetToSeq(subg) ELSE found
        paths    == [k \in 1..Len(parents) |->
                        path_configuration(E, ft, subg, parents[k])]
        config   == select_config(paths)
    IN [nodes       |-> subg,
        noparent    |-> noparent,
        parents     |-> parents,
        paths       |-> paths,
        path_config |-> config,
        features    |-> path_features(ft, subg, noparent, config)]

\* row = [1 if x in feats else 0 for x in range(1, number_of_features+1)]
em_row(feats, nf) == [x \in 1..nf |-> IF x \in feats THEN 1 ELSE 0]

\* counts[f] += ... on the Counter: a key that is not there yet is inserted
\* after the keys the Counter already holds
Touch(keys, f) == IF f \in Range(keys) THEN keys ELSE Append(keys, f)

RECURSIVE assign_counts_row(_, _, _, _, _, _)
\* assign_counts sending every path to the EM, single-feature paths included
assign_counts_row(features, i, nf, cnt, keys, em) ==
    IF i > Len(features)
    THEN [counts |-> cnt, keys |-> keys, em_array |-> em, ok |-> TRUE]
    ELSE assign_counts_row(features, i + 1, nf, cnt, keys,
                           Append(em, em_row(features[i], nf)))

RECURSIVE assign_counts(_, _, _, _, _, _)
\* "for feats in features": a direct count, an EM row, or the fatal error;
\* cnt holds the values of the Counter and keys its keys in insertion order
assign_counts(features, i, nf, cnt, keys, em) ==
    IF i > Len(features)
    THEN [counts |-> cnt, keys |-> keys, em_array |-> em, ok |-> TRUE]
    ELSE LET feats == features[i]
         IN IF Cardinality(feats) = 1
            THEN LET f == CHOOSE x \in feats : TRUE
                 IN assign_counts(features, i + 1, nf,
                        [cnt EXCEPT ![f] = @ + 1], Touch(keys, f), em)
            ELSE IF Cardinality(feats) > 1
            THEN assign_counts(features, i + 1, nf, cnt, keys,
                               Append(em, em_row(feats, nf)))
            ELSE [counts |-> cnt, keys |-> keys, em_array |-> em, ok |-> FALSE]

RECURSIVE Flatten(_)
\* the concatenation of a sequence of sequences
Flatten(ss) == IF Len(ss) = 0 THEN <<>> ELSE ss[1] \o Flatten(Tail(ss))

\* irescue.em.run_em(em_array, cycles=100): the weight of every column, in
\* thousandths. Uniform weights are the EM's fixed point when all rows are
\* the same, which is every array over two features.
run_em(matrix, columns) == [x \in columns |-> 1000 \div Cardinality(columns)]

RECURSIVE TouchAll(_, _)
\* Touch for a sequence of keys, one after the other
TouchAll(keys, fs) ==
    IF fs = <<>> THEN keys ELSE TouchAll(Touch(keys, fs[1]), Tail(fs))

\* tokeep, np.delete, run_em and the final loop over zip(tokeep, em_counts),
\* then dict(counts): the items of the returned dict in insertion order, the
\* directly counted features first and the features the EM adds after them
\* in ascending order. Counts are in thousandths (round(count, 3))
em_counts(cnt, keys, em, nf) ==
    IF em = <<>> THEN [k \in 1..Len(keys) |-> [f |-> keys[k],
                                                v |-> 1000 * cnt[keys[k]]]]
    ELSE LET tokeep == {x \in 1..nf : \E j \in 1..Len(em) : em[j][x] > 0}
             reduced == [j \in 1..Len(em) |-> [x \in tokeep |-> em[j][x]]]
             weights == run_em(reduced, tokeep)
             added == {f \in tokeep : weights[f] * Len(em) > 0}
             allkeys == TouchAll(keys, SetToSeq(added))
         IN [k \in 1..Len(allkeys) |->
                [f |-> allkeys[k],
                 v |-> 1000 * cnt[allkeys[k]]
                       + (IF allkeys[k] \in added
                          THEN weights[allkeys[k]] * Len(em) ELSE 0)]]

RECURSIVE solve_loop(_, _, _, _, _, _, _, _)
\* "for subg in subgraphs" as a whole
solve_loop(E, ft, comps, i, nf, cnt, keys, em) ==
    IF i > Len(comps)
    THEN [counts |-> cnt, keys |-> keys, em_array |-> em, ok |-> TRUE]
    ELSE LET s == solve_subgraph(E, ft, comps[i])
             a == assign_counts(s.features, 1, nf, cnt, keys, em)
         IN IF a.ok THEN solve_loop(E, ft, comps, i + 1, nf, a.counts, a.keys,
                                    a.em_array)
            ELSE a

\* compute_cell_counts as a function of the cell's equivalence classes: the
\* items <<[f, v], ...>> of the returned dict, in the dict's order, with the
\* count v in thousandths
compute_cell_counts(ec, nf) ==
    LET E == GraphEdges(ec)
        r == solve_loop(E, NodeFt(ec), connected_components(E, Nodes(ec)), 1,
                        nf, [f \in 1..nf |-> 0], <<>>, <<>>)
    IN [counts |-> em_counts(r.counts, r.keys, r.em_array, nf), ok |-> r.ok]

\* ---------------------------------------------------------- index_features

\* idx[ft] = i for i, line in enumerate(f, start=1): a later line overwrites
index_features(file) ==
    [name \in Range(file) |->
        CHOOSE i \in 1..Len(file) :
            file[i] = name /\ \A j \in (i + 1)..Len(file) : file[j] # name]

\* -------------------------------------------------------------- parse_maps

\* the generator before its first next(): "it" is the first line's barcode
gen_init(maps) ==
    [pos |-> 1,
     it |-> IF maps = <<>> THEN "" ELSE maps[1].cb,
     eqcl |-> <<>>,
     pending |-> <<>>,
     finished |-> FALSE]

RECURSIVE gen_next_keep(_, _, _)
\* parse_maps forgetting "eqcl = [(umi, feat, count)]" after a yield: the
\* line that ended a group is dropped and the old list is kept
gen_next_keep(maps, fidx, g) ==
    LET g1 == IF g.pending # <<>>
              THEN [g EXCEPT !.it = g.pending[1].cb, !.pending = <<>>]
              ELSE g
    IN IF g1.finished THEN [kind |-> "stop", g |-> g1]
       ELSE IF g1.pos > Len(maps)
       THEN [kind |-> "yield", cb |-> g1.it, eqcl |-> g1.eqcl,
             g |-> [g1 EXCEPT !.finished = TRUE]]
       ELSE LET line == maps[g1.pos]
            IN IF ~(line.feat \subseteq DOMAIN fidx)
               THEN [kind |-> "error", g |-> g1]
               ELSE LET rec == [umi |-> line.umi,
                                ft |-> {fidx[n] : n \in line.feat},
                                c |-> line.count]
                    IN IF line.cb = g1.it
                       THEN gen_next_keep(maps, fidx,
                                [g1 EXCEPT !.eqcl = Append(@, rec),
                                           !.pos = @ + 1])
                       ELSE [kind |-> "yield", cb |-> g1.it, eqcl |-> g1.eqcl,
                             g |-> [g1 EXCEPT !.pos = @ + 1,
                                    !.pending = <<[cb |-> line.cb, rec |-> rec]>>]]

RECURSIVE gen_next(_, _, _)
\* next(parse_maps(...)): runs the generator to its next yield, to its end
\* ("stop") or to the KeyError of feature_index[ft] ("error"). pending is the
\* line read before a yield: "it = cb; eqcl = [...]" run when it is resumed.
gen_next(maps, fidx, g) ==
    LET g1 == IF g.pending # <<>>
              THEN [g EXCEPT !.it = g.pending[1].cb,
                             !.eqcl = <<g.pending[1].rec>>,
                             !.pending = <<>>]
              ELSE g
    IN IF g1.finished THEN [kind |-> "stop", g |-> g1]
       ELSE IF g1.pos > Len(maps)
       THEN [kind |-> "yield", cb |-> g1.it, eqcl |-> g1.eqcl,
             g |-> [g1 EXCEPT !.finished = TRUE]]
       ELSE LET line == maps[g1.pos]
            IN IF ~(line.feat \subseteq DOMAIN fidx)
               THEN [kind |-> "error", g |-> g1]
               ELSE LET rec == [umi |-> line.umi,
                                ft |-> {fidx[n] : n \in line.feat},
                                c |-> line.count]
                    IN IF line.cb = g1.it
                       THEN gen_next(maps, fidx,
                                [g1 EXCEPT !.eqcl = Append(@, rec),
                                           !.pos = @ + 1])
                       ELSE [kind |-> "yield", cb |-> g1.it, eqcl |-> g1.eqcl,
                             g |-> [g1 EXCEPT !.pos = @ + 1,
                                    !.pending = <<[cb |-> line.cb, rec |-> rec]>>]]

\* ---------------------------------------------------------- split_barcodes

\* irescue.misc.get_ranges(num, div): div contiguous ranges [lo, hi) over
\* 0..num-1, sized as evenly as possible
get_ranges(num, div) ==
    LET size(i) == (num \div div) + (IF i < num % div THEN 1 ELSE 0)
        RECURSIVE lo(_)
        lo(i) == IF i = 0 THEN 0 ELSE lo(i - 1) + size(i - 1)
    IN [k \in 1..div |-> [lo |-> lo(k - 1), hi |-> lo(k - 1) + size(k - 1)]]

\* split_barcodes numbering the barcodes from 1 within every chunk
split_barcodes_local(file, n) ==
    LET chunks == get_ranges(Len(file), n)
        read(k) == IF k = 1 THEN 0 ELSE
                   Cardinality({j \in 1..Len(file) :
                        \E q \in 1..(k - 1) :
                            chunks[q].lo + 1 <= j /\ j <= chunks[q].hi})
    IN [k \in 1..n |->
           [b \in {file[read(k) + j] : j \in 1..(chunks[k].hi - chunks[k].lo)}
               |-> CHOOSE j \in 1..(chunks[k].hi - chunks[k].lo) :
                       file[read(k) + j] = b]]

\* split_barcodes: task k-1 gets {next(f).strip(): x+1 for x in chunk}; the
\* file is read on from where the previous chunk stopped
split_barcodes(file, n) ==
    LET chunks == get_ranges(Len(file), n)
        RECURSIVE read(_)
        read(k) == IF k = 1 THEN 0
                   ELSE read(k - 1) + (chunks[k - 1].hi - chunks[k - 1].lo)
    IN [k \in 1..n |->
           [b \in {file[read(k) + j] : j \in 1..(chunks[k].hi - chunks[k].lo)}
               |-> CHOOSE x \in (chunks[k].lo + 1)..chunks[k].hi :
                       /\ file[read(k) + (x - chunks[k].lo)] = b
                       /\ \A y \in (x + 1)..chunks[k].hi :
                             file[read(k) + (y - chunks[k].lo)] # b]]

\* --------------------------------------------------------------- run_count

\* the lines of one cell: "feature cellidx round(count, 3)" for the items of
\* cellcounts.items(), in the dict's order, whose count is >= 0.001
cell_lines(cellcounts, cellidx) ==
    LET AtLeast(item) == item.v >= 1
        kept == SelectSeq(cellcounts, AtLeast)
    IN [k \in 1..Len(kept) |-> [f |-> kept[k].f, b |-> cellidx, v |-> kept[k].v]]

RECURSIVE run_count(_, _, _, _, _)
\* run_count: "for cellbarcode, cellmaps in parse_maps(...)" to its end or to
\* the first exception; acc holds the matrix file, the cells counted and the
\* groups the reader yielded
run_count(maps, fidx, barcodes, g, acc) ==
    LET r == gen_next(maps, fidx, g)
    IN IF r.kind = "stop" THEN [acc EXCEPT !.status = "done"]
       ELSE IF r.kind = "error" THEN [acc EXCEPT !.status = "failed"]
       ELSE LET acc1 == [acc EXCEPT !.yielded =
                            Append(@, [cb |-> r.cb, eqcl |-> r.eqcl])]
            IN IF r.cb \notin DOMAIN barcodes
               THEN run_count(maps, fidx, barcodes, r.g, acc1)
               ELSE LET cc == compute_cell_counts(r.eqcl,
                                                  Cardinality(DOMAIN fidx))
                    IN IF ~cc.ok THEN [acc1 EXCEPT !.status = "failed"]
                       ELSE run_count(maps, fidx, barcodes, r.g,
                                [acc1 EXCEPT
                                    !.cells = Append(@, <<r.cb, barcodes[r.cb]>>),
                                    !.lines = @ \o cell_lines(cc.counts,
                                                              barcodes[r.cb])])

\* ---------------------------------------------------------------- formatMM

\* LC_ALL=C sort -k1,1n -k2,2n: feature first, barcode second
LineLess_feature(x, y) ==
    \/ x.f < y.f
    \/ x.f = y.f /\ x.b < y.b
    \/ x.f = y.f /\ x.b = y.b /\ x.v < y.v

\* LC_ALL=C sort -k2,2n -k1,1n: barcode index, then feature index, then the
\* whole line (the count's text, which orders as the count below 10.0)
LineLess(x, y) ==
    \/ x.b < y.b
    \/ x.b = y.b /\ x.f < y.f
    \/ x.b = y.b /\ x.f = y.f /\ x.v < y.v

RECURSIVE Insert(_, _)
Insert(sorted, x) ==
    IF sorted = <<>> THEN <<x>>
    ELSE IF LineLess(x, sorted[1]) THEN <<x>> \o sorted
    ELSE <<sorted[1]>> \o Insert(Tail(sorted), x)

RECURSIVE SortLines(_)
SortLines(lines) ==
    IF lines = <<>> THEN <<>>
    ELSE Insert(SortLines(Tail(lines)), lines[1])

\* formatMM: the header's three numbers and the sorted lines of all files
formatMM(matrix_files, fidx, barcodes_chunks) ==
    [features_count |-> Cardinality(DOMAIN fidx),
     barcodes_count |-> LET RECURSIVE total(_)
                            total(k) == IF k = 0 THEN 0 ELSE total(k - 1) +
                                Cardinality(DOMAIN barcodes_chunks[k])
                        IN total(Len(barcodes_chunks)),
     mmsize |-> Len(Flatten(matrix_files)),
     lines |-> SortLines(Flatten(matrix_files))]

\* ------------------------------------------------------------------- state

VARIABLES
    eqcl,        \* equivalence_classes of the cell: <<[umi, ft, c], ...>>
    pc,          \* position in compute_cell_counts
    edges,       \* edges of graph
    subgraphs,   \* node sets of the weakly connected components, in order
    si,          \* index of the next subgraph of "for subg in subgraphs"
    solved,      \* per finished subgraph: parents, paths, path_config, features
    counts,      \* counts: feature -> number of directly assigned UMIs
    keys,        \* the keys of counts in the Counter's insertion order
    em_array,    \* rows put aside for the EM
    em_invoked,  \* whether run_em was called
    result,      \* the returned dict's items <<[f, v], ...>>, v in thousandths
    maps,        \* the lines of the maps file
    nshards,     \* the number of tasks of the sharded run
    task,        \* <<n, taskn>> -> status, matrix file, cells counted, groups read
    matrix_out   \* n -> the final matrix of the run with n tasks, once written

cellvars == <<eqcl, pc, edges, subgraphs, si, solved, counts, keys, em_array,
              em_invoked, result>>
runvars == <<maps, nshards, task, matrix_out>>
vars == <<cellvars, runvars>>

InitCell ==
    /\ eqcl = <<>>
    /\ pc = "read"
    /\ edges = {}
    /\ subgraphs = <<>>
    /\ si = 1
    /\ solved = <<>>
    /\ counts = [f \in FeatureIds |-> 0]
    /\ keys = <<>>
    /\ em_array = <<>>
    /\ em_invoked = FALSE
    /\ result = <<>>

\* one cell, no run
Init ==
    /\ InitCell
    /\ maps = <<>>
    /\ nshards = 1
    /\ task = <<>>
    /\ matrix_out = <<>>

\* parse_maps: eqcl.append((umi, feat, count)) for one more line of the cell
ReadRecord ==
    /\ pc = "read"
    /\ Len(eqcl) < MaxNodes
    /\ \E r \in EqClass : eqcl' = Append(eqcl, r)
    /\ UNCHANGED <<pc, edges, subgraphs, si, solved, counts, keys, em_array,
                   em_invoked, result, runvars>>

\* compute_cell_counts up to the list of subgraphs
BuildGraph ==
    /\ pc = "read"
    /\ Len(eqcl) >= 1
    /\ edges' = GraphEdges(eqcl)
    /\ subgraphs' = connected_components(GraphEdges(eqcl), Nodes(eqcl))
    /\ pc' = "solve"
    /\ UNCHANGED <<eqcl, si, solved, counts, keys, em_array, em_invoked,
                   result, runvars>>

\* one iteration of "for subg in subgraphs"
SolveSubgraph ==
    /\ pc = "solve"
    /\ si <= Len(subgraphs)
    /\ LET s == solve_subgraph(edges, NodeFt(eqcl), subgraphs[si])
           a == assign_counts(s.features, 1, number_of_features, counts,
                              keys, em_array)
       IN /\ solved' = Append(solved, s)
          /\ counts' = a.counts
          /\ keys' = a.keys
          /\ em_array' = a.em_array
          /\ pc' = IF a.ok THEN "solve" ELSE "error"
    /\ si' = si + 1
    /\ UNCHANGED <<eqcl, edges, subgraphs, em_invoked, result, runvars>>

\* "if em_array:" run_em is called and its counts added; the dict is returned
Return ==
    /\ pc = "solve"
    /\ si > Len(subgraphs)
    /\ em_invoked' = (em_array # <<>>)
    /\ result' = em_counts(counts, keys, em_array, number_of_features)
    /\ pc' = "done"
    /\ UNCHANGED <<eqcl, edges, subgraphs, si, solved, counts, keys, em_array,
                   runvars>>

Next == ReadRecord \/ BuildGraph \/ SolveSubgraph \/ Return

Spec == Init /\ [][Next]_vars

\* ----------------------------------------------------------------- the run

features_index == index_features(FeaturesFile)

Tasks(n) == {<<n, i>> : i \in 0..(n - 1)}

\* a maps file, and the same input counted by one task and by nshards tasks
InitRun ==
    /\ InitCell
    /\ maps \in UNION {[1..k -> MapLine] : k \in 1..MaxRecords}
    /\ nshards \in ShardCounts
    /\ task = [t \in Tasks(1) \cup Tasks(nshards) |->
                  [status |-> "todo", lines |-> <<>>, cells |-> <<>>,
                   yielded |-> <<>>]]
    /\ matrix_out = [n \in {1, nshards} |-> <<>>]

\* run_count of task t = <<n, taskn>> with its chunk of split_barcodes
RunCount(t) ==
    /\ task[t].status = "todo"
    /\ task' = [task EXCEPT ![t] =
                   run_count(maps, features_index,
                             split_barcodes(BarcodesFile, t[1])[t[2] + 1],
                             gen_init(maps), task[t])]
    /\ UNCHANGED <<cellvars, maps, nshards, matrix_out>>

\* formatMM over the matrix files of the run with n tasks, all finished
FormatMM(n) ==
    /\ matrix_out[n] = <<>>
    /\ \A t \in Tasks(n) : task[t].status = "done"
    /\ matrix_out' = [matrix_out EXCEPT ![n] =
           <<formatMM([k \in 1..n |-> task[<<n, k - 1>>].lines],
                      features_index, split_barcodes(BarcodesFile, n))>>]
    /\ UNCHANGED <<cellvars, maps, nshards, task>>

NextRun ==
    \/ \E t \in DOMAIN task : RunCount(t)
    \/ \E n \in DOMAIN matrix_out : FormatMM(n)

SpecRun == InitRun /\ [][NextRun]_vars

\* ------------------------------------------------------------------ claims

Solved == {solved[k] : k \in 1..Len(solved)}

\* every path of every configuration built for a finished subgraph
AllPaths(s) == UNION {Range(s.paths[k]) : k \in 1..Len(s.paths)}

IsEdge(x, y) ==
    LET ux == eqcl[x + 1].umi
        uy == eqcl[y + 1].umi
        both == DOMAIN ux \cap DOMAIN uy
    IN /\ eqcl[x + 1].c + 1 >= 2 * eqcl[y + 1].c
       /\ \E f \in FeatureIds : f \in eqcl[x + 1].ft /\ f \in eqcl[y + 1].ft
       /\ \A i, j \in both : (i # j /\ ux[i] # uy[i]) => ux[j] = uy[j]

\* C1: the chosen path configuration of every subgraph is a partition of the
\* subgraph's nodes: each node is in exactly one path, once, and no path holds
\* a node of another subgraph.
C1_Partition ==
    \A k \in 1..Len(solved) :
        LET flat == Flatten(solved[k].path_config)
        IN /\ solved[k].nodes = subgraphs[k]
           /\ Range(flat) = subgraphs[k]
           /\ Len(flat) = Cardinality(subgraphs[k])
           /\ \A j \in 1..Len(solved[k].path_config) :
                 Len(solved[k].path_config[j]) >= 1

\* a finished cell with a parentless 2-cycle (both directions present)
C1_Witness ==
    /\ pc = "done"
    /\ \E s \in Solved :
          /\ s.noparent
          /\ Cardinality(s.nodes) = 2
          /\ \A u, v \in s.nodes : u # v => <<u, v>> \in edges

\* C2: the chosen configuration has no more paths than any parent's
\* configuration, and it is the configuration of the first parent, in parent
\* order, that reaches the minimum.
C2_Parsimony ==
    \A s \in Solved :
        /\ \A k \in 1..Len(s.paths) : Len(s.path_config) <= Len(s.paths[k])
        /\ \E j \in 1..Len(s.paths) :
              /\ s.path_config = s.paths[j]
              /\ s.path_config[1][1] = s.parents[j]
              /\ \A i \in 1..(j - 1) : Len(s.paths[i]) > Len(s.paths[j])

\* the first parent's configuration is not minimal, a later one is chosen
C2_Witness ==
    \E s \in Solved :
        /\ Len(s.paths) >= 2
        /\ Len(s.paths[1]) > Len(s.path_config)
        /\ s.path_config[1][1] # s.parents[1]

\* C3: once the graph is built, x->y is an edge iff x # y, count(x) >=
\* 2*count(y) - 1, the feature sets intersect and the UMIs differ in at most
\* one position; there is no self loop; y->x plays no part in x->y.
C3_Edges ==
    pc # "read" =>
        /\ \A x, y \in Nodes(eqcl) :
              <<x, y>> \in edges <=> (x # y /\ IsEdge(x, y))
        /\ edges \subseteq Nodes(eqcl) \X Nodes(eqcl)

\* a graph with a one-way edge, a two-way edge and an unconnected pair
C3_Witness ==
    /\ pc = "solve"
    /\ \E x, y \in Nodes(eqcl) : <<x, y>> \in edges /\ <<y, x>> \notin edges
    /\ \E x, y \in Nodes(eqcl) : <<x, y>> \in edges /\ <<y, x>> \in edges
    /\ \E x, y \in Nodes(eqcl) :
          x # y /\ <<x, y>> \notin edges /\ <<y, x>> \notin edges

\* the feature sets of all finished paths, in the order they were assigned
AssignedFeatures == Flatten([k \in 1..Len(solved) |-> solved[k].features])

IsMulti(feats) == Cardinality(feats) > 1

\* C4: each path of a chosen configuration gets one unit: its feature set is
\* the first node's (a parent exists) or the union of the subgraph's feature
\* sets (none exists); one feature adds 1 to that feature's count and no row,
\* several features add one row whose 1-entries are that set and no count.
C4_Assignment ==
    /\ \A s \in Solved :
          /\ Len(s.features) = Len(s.path_config)
          /\ \A k \in 1..Len(s.path_config) :
                s.features[k] =
                    IF \E x \in s.nodes :
                          \A y \in s.nodes : <<y, x>> \notin edges
                    THEN eqcl[s.path_config[k][1] + 1].ft
                    ELSE UNION {eqcl[x + 1].ft : x \in s.nodes}
    /\ pc # "error" =>
          /\ \A f \in FeatureIds :
                counts[f] = Cardinality({i \in 1..Len(AssignedFeatures) :
                                            AssignedFeatures[i] = {f}})
          /\ LET multi == SelectSeq(AssignedFeatures, IsMulti)
             IN /\ Len(em_array) = Len(multi)
                /\ \A j \in 1..Len(em_array) :
                      /\ DOMAIN em_array[j] = FeatureIds
                      /\ \A x \in FeatureIds :
                            em_array[j][x] = IF x \in multi[j] THEN 1 ELSE 0
    /\ (pc = "done" /\ eqcl = <<[umi |-> <<"A", "A">>, ft |-> {1}, c |-> 2],
                               [umi |-> <<"A", "T">>, ft |-> {1, 2}, c |-> 1]>>)
          => /\ solved[1].path_config = <<(<<0, 1>>)>>
             /\ solved[1].features = <<{1}>>
             /\ counts = [f \in FeatureIds |-> IF f = 1 THEN 1 ELSE 0]
             /\ em_array = <<>>

\* a parentless subgraph sent to the EM beside a parented one counted directly
C4_Witness ==
    /\ pc = "done"
    /\ \E s \in Solved :
          s.noparent /\ \E k \in 1..Len(s.features) : IsMulti(s.features[k])
    /\ \E s \in Solved :
          /\ ~s.noparent
          /\ \E k \in 1..Len(s.features) : Cardinality(s.features[k]) = 1

\* the documented example is reached
C4_Example ==
    /\ pc = "done"
    /\ eqcl = <<[umi |-> <<"A", "A">>, ft |-> {1}, c |-> 2],
                [umi |-> <<"A", "T">>, ft |-> {1, 2}, c |-> 1]>>

\* C8 as stated: a single equivalence class always yields its feature with
\* count 1.0 and never an EM row.
C8_Original ==
    (pc = "done" /\ Len(eqcl) = 1) =>
        /\ ~em_invoked
        /\ em_array = <<>>
        /\ \E f \in eqcl[1].ft :
              counts = [g \in FeatureIds |-> IF g = f THEN 1 ELSE 0]

\* C8 amended: a single equivalence class with exactly one feature yields that
\* feature with count 1.0 and no EM; with several features it yields no direct
\* count, one EM row with exactly its features, and the EM is invoked.
C8_SingleNode ==
    (pc = "done" /\ Len(eqcl) = 1) =>
        IF Cardinality(eqcl[1].ft) = 1
        THEN /\ ~em_invoked
             /\ em_array = <<>>
             /\ \A g \in FeatureIds :
                   counts[g] = IF g \in eqcl[1].ft THEN 1 ELSE 0
        ELSE /\ em_invoked
             /\ Len(em_array) = 1
             /\ \A g \in FeatureIds :
                   /\ counts[g] = 0
                   /\ em_array[1][g] = IF g \in eqcl[1].ft THEN 1 ELSE 0

\* a finished cell of one single-feature equivalence class
C8_Witness ==
    /\ pc = "done"
    /\ Len(eqcl) = 1
    /\ Cardinality(eqcl[1].ft) = 1
    /\ \E f \in FeatureIds : counts[f] = 1

\* C9 as stated: consecutive nodes of every path are joined by an edge.
C9_Original ==
    \A s \in Solved : \A p \in AllPaths(s) :
        \A i \in 1..(Len(p) - 1) : <<p[i], p[i + 1]>> \in edges

\* C9 amended: every path is a depth-first walk from its first node: each
\* later node has an edge from some node earlier in the path (the second node
\* from the first), and no node occurs twice.
C9_Walk ==
    \A s \in Solved : \A p \in AllPaths(s) :
        /\ \A i \in 2..Len(p) : \E j \in 1..(i - 1) : <<p[j], p[i]>> \in edges
        /\ \A i, j \in 1..Len(p) : i # j => p[i] # p[j]
        /\ Range(p) \subseteq s.nodes

\* a path whose second and third node are both children of the first only
C9_Witness ==
    \E s \in Solved : \E p \in AllPaths(s) :
        /\ Len(p) = 3
        /\ <<p[1], p[2]>> \in edges
        /\ <<p[1], p[3]>> \in edges
        /\ <<p[2], p[3]>> \notin edges

\* C10: with read counts >= 1, a subgraph without parent is purely
\* bidirectional: each of its edges has its reverse and each of its nodes has
\* read count 1; the union of features is used for such subgraphs only.
C10_Bidirectional ==
    (\A i \in 1..Len(eqcl) : eqcl[i].c >= 1) =>
        \A s \in Solved :
            s.noparent =>
                /\ \A u, v \in s.nodes :
                      <<u, v>> \in edges => <<v, u>> \in edges
                /\ \A u \in s.nodes : eqcl[u + 1].c = 1
                /\ \A u \in s.nodes : \E v \in s.nodes : <<v, u>> \in edges

\* a finished parentless subgraph of three nodes, two of them not adjacent
C10_Witness ==
    \E s \in Solved :
        /\ s.noparent
        /\ Cardinality(s.nodes) = 3
        /\ \E u, v \in s.nodes :
              u # v /\ <<u, v>> \notin edges /\ <<v, u>> \notin edges

\* the maps file is grouped by barcode: no barcode occurs in two separate runs
Grouped ==
    \A i, j, k \in 1..Len(maps) :
        (i < j /\ j < k /\ maps[i].cb = maps[k].cb) => maps[j].cb = maps[i].cb

\* how many times a task of the run with n tasks counted barcode b as index x
Counted(n, b, x) ==
    LET cells == Flatten([k \in 1..n |-> task[<<n, k - 1>>].cells])
    IN Cardinality({i \in 1..Len(cells) : cells[i] = <<b, x>>})

\* C5: one task and nshards tasks give the same final matrix (header numbers
\* and entries), every barcode is counted by one task only, and with the same
\* barcode index as in the single task.
C5_Sharding ==
    (matrix_out[1] # <<>> /\ matrix_out[nshards] # <<>>) =>
        /\ matrix_out[nshards][1].lines = matrix_out[1][1].lines
        /\ matrix_out[nshards][1].features_count = matrix_out[1][1].features_count
        /\ matrix_out[nshards][1].barcodes_count = matrix_out[1][1].barcodes_count
        /\ matrix_out[nshards][1].mmsize = matrix_out[1][1].mmsize
        /\ matrix_out[1][1].mmsize = Len(matrix_out[1][1].lines)
        /\ \A b \in Range(BarcodesFile) :
              /\ Cardinality({t \in Tasks(nshards) :
                     \E i \in 1..Len(task[t].cells) : task[t].cells[i][1] = b})
                 = (IF \E i \in 1..Len(maps) : maps[i].cb = b THEN 1 ELSE 0)
              /\ \A x \in 1..Len(BarcodesFile) :
                    Counted(nshards, b, x) = Counted(1, b, x)

\* both matrices are written and two tasks of the sharded run wrote entries,
\* one of them a fractional count of the EM
C5_Witness ==
    /\ matrix_out[1] # <<>>
    /\ matrix_out[nshards] # <<>>
    /\ \E t, u \in Tasks(nshards) :
          t # u /\ task[t].lines # <<>> /\ task[u].lines # <<>>
    /\ \E i \in 1..Len(matrix_out[1][1].lines) :
          matrix_out[1][1].lines[i].v = 500

FinalLines == {matrix_out[n][1].lines : n \in {m \in DOMAIN matrix_out :
                                                   matrix_out[m] # <<>>}}

\* C6 as stated: consecutive entry lines ascend by feature, then by barcode.
C6_Original ==
    \A ls \in FinalLines : \A i \in 1..(Len(ls) - 1) :
        \/ ls[i].f < ls[i + 1].f
        \/ ls[i].f = ls[i + 1].f /\ ls[i].b < ls[i + 1].b

\* C6 amended: consecutive entry lines ascend by barcode index first and by
\* feature index second (b1 < b2, or b1 = b2 and f1 <= f2), strictly
\* (f1 < f2) when the maps file is grouped by barcode.
C6_BarcodeOrder ==
    \A ls \in FinalLines : \A i \in 1..(Len(ls) - 1) :
        \/ ls[i].b < ls[i + 1].b
        \/ ls[i].b = ls[i + 1].b /\ ls[i].f < ls[i + 1].f
        \/ ls[i].b = ls[i + 1].b /\ ls[i].f = ls[i + 1].f /\ ~Grouped

\* a final matrix whose lines descend in feature where the barcode ascends
C6_Witness ==
    \E ls \in FinalLines : \E i \in 1..(Len(ls) - 1) :
        ls[i].b < ls[i + 1].b /\ ls[i].f > ls[i + 1].f

\* the barcodes of the lines that break the input contract
Offending ==
    {maps[i].cb : i \in {j \in 1..Len(maps) :
        \/ maps[j].cb \notin Range(BarcodesFile)
        \/ ~(maps[j].feat \subseteq Range(FeaturesFile))
        \/ \E h, k \in 1..Len(maps) :
              h < k /\ k < j /\ maps[h].cb = maps[j].cb /\ maps[k].cb # maps[j].cb}}

\* C7: a maps file that is not grouped by barcode, or holds a barcode or a
\* feature name that its index does not, makes run_count end with an error,
\* without matrix entries for the offending line's cell.
C7_Original ==
    \A t \in DOMAIN task :
        (task[t].status # "todo" /\ Offending # {}) =>
            /\ task[t].status = "failed"
            /\ \A i \in 1..Len(task[t].lines) :
                  BarcodesFile[task[t].lines[i].b] \notin Offending

\* the positions of maps where a run of equal barcodes starts, ascending
RunStarts ==
    SetToSeq({i \in 1..Len(maps) : i = 1 \/ maps[i].cb # maps[i - 1].cb})

\* the last position of the k-th run
RunEnd(k) ==
    IF k = Len(RunStarts) THEN Len(maps) ELSE RunStarts[k + 1] - 1

\* the equivalence class a line of maps stands for
LineClass(i) ==
    [umi |-> maps[i].umi,
     ft |-> {CHOOSE x \in 1..Len(FeaturesFile) : FeaturesFile[x] = n :
                n \in maps[i].feat},
     c |-> maps[i].count]

\* C11: for a non-empty maps file parse_maps yields, in input order, one group
\* per maximal run of consecutive lines with the same barcode, labelled with
\* that barcode and holding the run's records in order, so that the groups
\* concatenated are the input (first and last run included); on a grouped
\* file every barcode is yielded once, with all of its records.
C11_Groups ==
    \A t \in DOMAIN task :
        LET y == task[t].yielded
        IN /\ Len(y) <= Len(RunStarts)
           /\ task[t].status = "done" => Len(y) = Len(RunStarts)
           /\ \A k \in 1..Len(y) :
                 /\ y[k].cb = maps[RunStarts[k]].cb
                 /\ Len(y[k].eqcl) = RunEnd(k) - RunStarts[k] + 1
                 /\ \A j \in 1..Len(y[k].eqcl) :
                       /\ maps[RunStarts[k] + j - 1].cb = y[k].cb
                       /\ y[k].eqcl[j] = LineClass(RunStarts[k] + j - 1)
           /\ (task[t].status = "done" /\ Grouped) =>
                 \A b \in {maps[i].cb : i \in 1..Len(maps)} :
                     /\ Cardinality({k \in 1..Len(y) : y[k].cb = b}) = 1
                     /\ \A k \in 1..Len(y) :
                           y[k].cb = b =>
                               Len(y[k].eqcl) =
                                   Cardinality({i \in 1..Len(maps) :
                                                   maps[i].cb = b})

\* a task read three lines to the end: a run of two unlike records, then a
\* last run of one record
C11_Witness ==
    \E t \in DOMAIN task :
        /\ task[t].status = "done"
        /\ Len(maps) = 3
        /\ Len(task[t].yielded) = 2
        /\ Len(task[t].yielded[1].eqcl) = 2
        /\ task[t].yielded[1].eqcl[1] # task[t].yielded[1].eqcl[2]
        /\ Len(task[t].yielded[2].eqcl) = 1

\* C12: the compatibility test of pathfinder is anchored to the path's first
\* node: every node of every path shares a feature with the first node's
\* feature set, so a node whose feature set is disjoint from it never joins
\* the path, whatever the feature sets of the nodes in between.
C12_Anchor ==
    \A s \in Solved : \A p \in AllPaths(s) :
        \A i \in 1..Len(p) : eqcl[p[i] + 1].ft \cap eqcl[p[1] + 1].ft # {}

\* a path left out a successor of one of its later nodes: the successor
\* shares a feature with that node and none with the path's first node
C12_Witness ==
    \E s \in Solved : \E k \in 1..Len(s.paths) :
        LET p == s.paths[k][1]
        IN \E j \in 2..Len(p) : \E v \in s.nodes \ Range(p) :
              /\ <<p[j], v>> \in edges
              /\ eqcl[v + 1].ft \cap eqcl[p[j] + 1].ft # {}
              /\ eqcl[v + 1].ft \cap eqcl[p[1] + 1].ft = {}

====
